---------------------------- MODULE Spec2Model ----------------------------
(***************************************************************************)
(* A model of the CMDB in src/app.py: the two tables (configuration_item,  *)
(* relationship) with the constraints SQLite enforces on them, and the     *)
(* request handlers that read and write them.                              *)
(*                                                                         *)
(* The specifications share the variables:                                 *)
(*   Spec           every handler runs as one step (one request at a time);*)
(*   SpecStorage    rows written straight through the session, as the      *)
(*                  seeding command does, without a handler's checks;      *)
(*   SpecQuery      the read routes (the two CI listings and a CI's        *)
(*                  relationships) over what the create routes stored;     *)
(*   SpecConc       delete_ci and create_relationship in flight together,  *)
(*                  each split at its database round trips;                *)
(*   SpecConcCreate create_ci and add_ci_ui in flight together, each split *)
(*                  between its duplicate check and its commit;            *)
(*   SpecRoundTrip  CI creates and reads of single CIs;                    *)
(*   SpecTodo       the in-memory to-do list;                              *)
(*   SpecUpdate     CI creates and updates with empty required fields;     *)
(*   SpecRelUi      the UI route deleting a relationship from a CI's page. *)
(***************************************************************************)
EXTENDS Integers, FiniteSets, Sequences, TLC

VARIABLES
    cis,     \* table configuration_item: id -> row
    rels,    \* table relationship: id -> row
    clock,   \* datetime.utcnow() of the latest timestamped call
    resp,    \* the answer to the latest finished request
    req,     \* SpecConc, SpecConcCreate: the request each worker has in flight
    todos    \* the in-memory to-do list

vars == <<cis, rels, clock, resp, req, todos>>

(***************************************************************************)
(* Bounds of the model.                                                    *)
(***************************************************************************)
MaxCiId  == 3    \* largest id configuration_item hands out
MaxRelId == 2    \* largest id relationship hands out
MaxClock == 3    \* timestamped calls (CI creates and updates) in a run

Procs == {"w1", "w2"}    \* SpecConc: the workers serving requests

(***************************************************************************)
(* Values.  None is Python's None / SQL NULL / JSON null; ABSENT is a key  *)
(* that the request payload does not have.                                 *)
(***************************************************************************)
None   == "<None>"
ABSENT == "<absent>"

Names    == {"a", "b", "c"}
CITypes  == {"Server", "Database"}
Statuses == {"Active"}

ALLOWED_RELATIONSHIP_TYPES == {"Depends on", "Runs on"}

\* SQLite leaves foreign keys unenforced unless a connection issues
\* PRAGMA foreign_keys=ON; app.py configures the URI and nothing else.
ForeignKeysEnforced == FALSE

Max(S) == CHOOSE x \in S : \A y \in S : y <= x

\* INTEGER PRIMARY KEY without AUTOINCREMENT: one more than the largest
\* rowid in the table now, so the id of a deleted last row is handed out again.
NextId(table) == IF DOMAIN table = {} THEN 1 ELSE Max(DOMAIN table) + 1

\* Falsy testing for the key alone: `field not in data`
Falsy_MissingOnly(v) == v = ABSENT

\* Python truthiness of a payload value: `field not in data or not data[field]`
Falsy(v) == v \in {ABSENT, None, ""}

\* data.get(key)
Get(v) == IF v = ABSENT THEN None ELSE v

Without(table, ids) == [i \in DOMAIN table \ ids |-> table[i]]

(***************************************************************************)
(* The storage layer: what SQLite accepts.                                 *)
(***************************************************************************)
\* CIRowAccepted with the UNIQUE constraint on ci_name left off the column
CIRowAccepted_NoUnique(table, id, row) ==
    /\ row.ci_name # None
    /\ row.ci_type # None
    /\ row.status # None

\* configuration_item: NOT NULL on ci_name, ci_type, status; UNIQUE(ci_name)
CIRowAccepted(table, id, row) ==
    /\ row.ci_name # None
    /\ row.ci_type # None
    /\ row.status # None
    /\ \A j \in DOMAIN table \ {id} : table[j].ci_name # row.ci_name

\* RelRowAccepted without the CHECK constraint ck_not_self_referential
RelRowAccepted_NoCheck(citable, row) ==
    /\ row.relationship_type # None
    /\ ForeignKeysEnforced =>
          /\ row.source_ci_id \in DOMAIN citable
          /\ row.target_ci_id \in DOMAIN citable

\* relationship: NOT NULL on relationship_type (the two id columns hold
\* integers here), CHECK ck_not_self_referential, and the two foreign keys as
\* far as the connection enforces them
RelRowAccepted(citable, row) ==
    /\ row.relationship_type # None
    /\ row.source_ci_id # row.target_ci_id
    /\ ForeignKeysEnforced =>
          /\ row.source_ci_id \in DOMAIN citable
          /\ row.target_ci_id \in DOMAIN citable

\* NewCI with the owner left out of the constructor call
NewCI_NoOwner(data, now) ==
    [ci_name      |-> data.ci_name,
     ci_type      |-> data.ci_type,
     status       |-> data.status,
     owner        |-> None,
     ip_location  |-> Get(data.ip_location),
     description  |-> Get(data.description),
     last_updated |-> now]

\* ConfigurationItem(...) as the handlers build it; last_updated is the
\* column default, evaluated when the INSERT is flushed
NewCI(data, now) ==
    [ci_name      |-> data.ci_name,
     ci_type      |-> data.ci_type,
     status       |-> data.status,
     owner        |-> Get(data.owner),
     ip_location  |-> Get(data.ip_location),
     description  |-> Get(data.description),
     last_updated |-> now]

\* CascadeOf with the cascade declared on source_relationships only
CascadeOf_SourceOnly(reltable, id) ==
    {r \in DOMAIN reltable : reltable[r].source_ci_id = id}

\* CascadeOf with the collections loaded without their foreign-key filter
CascadeOf_All(reltable, id) == DOMAIN reltable

\* The ids of the relationships the ORM finds in ci.source_relationships and
\* ci.target_relationships (cascade="all, delete-orphan")
CascadeOf(reltable, id) ==
    {r \in DOMAIN reltable :
        reltable[r].source_ci_id = id \/ reltable[r].target_ci_id = id}

(***************************************************************************)
(* Responses.  kind is the error the handler reports:                      *)
(*   ok, ValidationError, DuplicateNameError, NotFoundError, Aborted,      *)
(*   IntegrityError ("Database integrity error."), UnexpectedError         *)
(*   (the handlers' `except Exception` branch).                            *)
(***************************************************************************)
NoData == [none |-> TRUE]
NameOf(name) == [ci_name |-> name]    \* the name an error message quotes
Err(msg) == [error |-> msg]           \* which of a handler's error messages
Idle   == [op |-> "idle", pc |-> "idle", id |-> 0, data |-> NoData,
           loaded |-> {}, kind |-> "none"]

Response(op, kind, status, id, body) ==
    [op |-> op, kind |-> kind, status |-> status, id |-> id, body |-> body]

Init ==
    /\ cis = <<>>
    /\ rels = <<>>
    /\ clock = 0
    /\ resp = Response("none", "none", 0, 0, NoData)
    /\ req = [p \in Procs |-> Idle]
    /\ todos = <<>>

(***************************************************************************)
(* Request payloads.  A CI payload serves the JSON routes (a key may be    *)
(* missing or null) and the form routes (request.form.get gives None for a *)
(* missing field).  Ids in a payload are integers.                         *)
(***************************************************************************)
CIFields ==
    [ci_name     : Names \cup {"", ABSENT},
     ci_type     : CITypes \cup {"", ABSENT},
     status      : Statuses \cup {"", None, ABSENT},
     owner       : {ABSENT, "ops"},
     ip_location : {ABSENT},
     description : {ABSENT}]

\* the payloads used: a complete one for every name; for the name "c" also
\* one with an owner, one with a null status and one with the name alone;
\* an empty payload
CIData ==
    {d \in CIFields :
        \/ d.ci_name \in Names /\ d.ci_type = "Server" /\ d.status = "Active"
                              /\ (d.owner = ABSENT \/ d.ci_name = "c")
        \/ d.ci_name = "c" /\ d.ci_type = "Server" /\ d.status = None /\ d.owner = ABSENT
        \/ d.ci_name = "c" /\ d.ci_type = ABSENT /\ d.status = ABSENT /\ d.owner = ABSENT
        \/ d.ci_name = ABSENT /\ d.ci_type = ABSENT /\ d.status = ABSENT /\ d.owner = ABSENT}

\* further payloads for the create routes: each required field in turn empty,
\* and each in turn missing
CICreateData ==
    CIData \cup
    {d \in CIFields :
        /\ d.owner = ABSENT
        /\ \/ d.ci_name \in {"", ABSENT} /\ d.ci_type = "Server" /\ d.status = "Active"
           \/ d.ci_name = "a" /\ d.ci_type \in {"", ABSENT} /\ d.status = "Active"
           \/ d.ci_name = "a" /\ d.ci_type = "Server" /\ d.status \in {"", ABSENT}}

CIIds  == 1..MaxCiId
RelIds == 1..MaxRelId

RelFields ==
    [source_ci_id      : CIIds,
     target_ci_id      : CIIds,
     relationship_type : {"Depends on", "Hacks into", ABSENT}]

\* the payloads used: an allowed type for every pair from a lower to a higher
\* id or to itself, and every type, or none, for the pair 2 -> 1
RelData ==
    {d \in RelFields :
        \/ d.source_ci_id <= d.target_ci_id /\ d.relationship_type = "Depends on"
        \/ d.source_ci_id = 2 /\ d.target_ci_id = 1}

\* further payloads for the relationship route: a CI related to itself, with
\* every type and with none
RelCreateData ==
    RelData \cup {d \in RelFields : d.source_ci_id = d.target_ci_id /\ d.source_ci_id <= 2}

\* Relationship(...) as create_relationship and the seeding command build it
NewRel(data) ==
    [source_ci_id      |-> data.source_ci_id,
     target_ci_id      |-> data.target_ci_id,
     relationship_type |-> Get(data.relationship_type)]

\* The row update_ci leaves in the session: a key of the payload overwrites
\* the attribute, a missing key leaves it
Patched(ci, data) ==
    [ci_name      |-> IF data.ci_name = ABSENT THEN ci.ci_name ELSE data.ci_name,
     ci_type      |-> IF data.ci_type = ABSENT THEN ci.ci_type ELSE data.ci_type,
     status       |-> IF data.status = ABSENT THEN ci.status ELSE data.status,
     owner        |-> IF data.owner = ABSENT THEN ci.owner ELSE data.owner,
     ip_location  |-> IF data.ip_location = ABSENT THEN ci.ip_location
                      ELSE data.ip_location,
     description  |-> IF data.description = ABSENT THEN ci.description
                      ELSE data.description,
     last_updated |-> ci.last_updated]

\* The row edit_ci_ui leaves in the session: all six form fields assigned
Assigned(ci, form) ==
    [ci_name      |-> Get(form.ci_name),
     ci_type      |-> Get(form.ci_type),
     status       |-> Get(form.status),
     owner        |-> Get(form.owner),
     ip_location  |-> Get(form.ip_location),
     description  |-> Get(form.description),
     last_updated |-> ci.last_updated]

\* Flushed with no onupdate on the last_updated column
Flushed_NoOnupdate(ci, row, now) == row

\* The flush of a modified row: an UPDATE is emitted only when an attribute
\* differs from the loaded one, and onupdate sets last_updated with it
Flushed(ci, row, now) ==
    IF row = ci THEN ci ELSE [row EXCEPT !.last_updated = now]

(***************************************************************************)
(* Spec: the handlers, one step each.                                      *)
(***************************************************************************)
\* POST /api/ci
create_ci(data) ==
    /\ UNCHANGED todos
    /\ clock < MaxClock
    /\ NextId(cis) <= MaxCiId
    /\ UNCHANGED <<rels, req>>
    /\ IF Falsy(data.ci_name) \/ Falsy(data.ci_type) \/ Falsy(data.status)
       THEN /\ resp' = Response("create_ci", "ValidationError", 400, 0, NoData)
            /\ UNCHANGED <<cis, clock>>
       ELSE LET id  == NextId(cis)
                row == NewCI(data, clock + 1)
            IN  IF CIRowAccepted(cis, id, row)
                THEN /\ cis' = (id :> row) @@ cis
                     /\ clock' = clock + 1
                     /\ resp' = Response("create_ci", "ok", 201, id, row)
                ELSE /\ resp' = Response("create_ci", "DuplicateNameError", 400, 0, NameOf(data.ci_name))
                     /\ UNCHANGED <<cis, clock>>

\* POST /ui/ci/add
add_ci_ui(form) ==
    /\ UNCHANGED todos
    /\ clock < MaxClock
    /\ NextId(cis) <= MaxCiId
    /\ UNCHANGED <<rels, req>>
    /\ IF Falsy(form.ci_name) \/ Falsy(form.ci_type) \/ Falsy(form.status)
       THEN /\ resp' = Response("add_ci_ui", "ValidationError", 200, 0, NoData)
            /\ UNCHANGED <<cis, clock>>
       ELSE IF \E j \in DOMAIN cis : cis[j].ci_name = form.ci_name
       THEN /\ resp' = Response("add_ci_ui", "DuplicateNameError", 200, 0, NameOf(form.ci_name))
            /\ UNCHANGED <<cis, clock>>
       ELSE LET id  == NextId(cis)
                row == NewCI(form, clock + 1)
            IN  IF CIRowAccepted(cis, id, row)
                THEN /\ cis' = (id :> row) @@ cis
                     /\ clock' = clock + 1
                     /\ resp' = Response("add_ci_ui", "ok", 302, id, row)
                ELSE /\ resp' = Response("add_ci_ui", "UnexpectedError", 200, 0, NoData)
                     /\ UNCHANGED <<cis, clock>>

\* update_ci committing the name on its own, before the other fields: the name
\* stays when their commit is refused
update_ci_CommitPerField(ci_id, data) ==
    /\ UNCHANGED todos
    /\ clock < MaxClock
    /\ UNCHANGED <<rels, req>>
    /\ IF ci_id \notin DOMAIN cis
       THEN /\ resp' = Response("update_ci", "NotFoundError", 404, ci_id, NoData)
            /\ UNCHANGED <<cis, clock>>
       ELSE IF \A k \in DOMAIN data : data[k] = ABSENT
       THEN /\ resp' = Response("update_ci", "ValidationError", 400, ci_id, NoData)
            /\ UNCHANGED <<cis, clock>>
       ELSE IF /\ data.ci_name # ABSENT
               /\ data.ci_name # cis[ci_id].ci_name
               /\ \E j \in DOMAIN cis : cis[j].ci_name = data.ci_name
       THEN /\ resp' = Response("update_ci", "DuplicateNameError", 400, ci_id, NameOf(data.ci_name))
            /\ UNCHANGED <<cis, clock>>
       ELSE LET row == Flushed(cis[ci_id], Patched(cis[ci_id], data), clock + 1)
            IN  IF CIRowAccepted(cis, ci_id, row)
                THEN /\ cis' = [cis EXCEPT ![ci_id] = row]
                     /\ clock' = clock + 1
                     /\ resp' = Response("update_ci", "ok", 200, ci_id, row)
                ELSE \* except IntegrityError: "Update failed due to a naming conflict"
                     /\ resp' = Response("update_ci", "DuplicateNameError", 400, ci_id, NameOf(data.ci_name))
                     /\ cis' = [cis EXCEPT ![ci_id].ci_name = row.ci_name]
                     /\ UNCHANGED clock

\* PUT /api/ci/<ci_id>
update_ci(ci_id, data) ==
    /\ UNCHANGED todos
    /\ clock < MaxClock
    /\ UNCHANGED <<rels, req>>
    /\ IF ci_id \notin DOMAIN cis
       THEN /\ resp' = Response("update_ci", "NotFoundError", 404, ci_id, NoData)
            /\ UNCHANGED <<cis, clock>>
       ELSE IF \A k \in DOMAIN data : data[k] = ABSENT
       THEN /\ resp' = Response("update_ci", "ValidationError", 400, ci_id, NoData)
            /\ UNCHANGED <<cis, clock>>
       ELSE IF /\ data.ci_name # ABSENT
               /\ data.ci_name # cis[ci_id].ci_name
               /\ \E j \in DOMAIN cis : cis[j].ci_name = data.ci_name
       THEN /\ resp' = Response("update_ci", "DuplicateNameError", 400, ci_id, NameOf(data.ci_name))
            /\ UNCHANGED <<cis, clock>>
       ELSE LET row == Flushed(cis[ci_id], Patched(cis[ci_id], data), clock + 1)
            IN  IF CIRowAccepted(cis, ci_id, row)
                THEN /\ cis' = [cis EXCEPT ![ci_id] = row]
                     /\ clock' = clock + 1
                     /\ resp' = Response("update_ci", "ok", 200, ci_id, row)
                ELSE \* except IntegrityError: "Update failed due to a naming conflict"
                     /\ resp' = Response("update_ci", "DuplicateNameError", 400, ci_id, NameOf(data.ci_name))
                     /\ UNCHANGED <<cis, clock>>

\* POST /ui/ci/<ci_id>/edit
edit_ci_ui(ci_id, form) ==
    /\ UNCHANGED todos
    /\ clock < MaxClock
    /\ UNCHANGED <<rels, req>>
    /\ IF ci_id \notin DOMAIN cis
       THEN /\ resp' = Response("edit_ci_ui", "NotFoundError", 302, ci_id, NoData)
            /\ UNCHANGED <<cis, clock>>
       ELSE IF Falsy(form.ci_name) \/ Falsy(form.ci_type) \/ Falsy(form.status)
       THEN /\ resp' = Response("edit_ci_ui", "ValidationError", 200, ci_id, NoData)
            /\ UNCHANGED <<cis, clock>>
       ELSE IF /\ cis[ci_id].ci_name # form.ci_name
               /\ \E j \in DOMAIN cis \ {ci_id} : cis[j].ci_name = form.ci_name
       THEN /\ resp' = Response("edit_ci_ui", "DuplicateNameError", 200, ci_id, NameOf(form.ci_name))
            /\ UNCHANGED <<cis, clock>>
       ELSE LET row == Flushed(cis[ci_id], Assigned(cis[ci_id], form), clock + 1)
            IN  IF CIRowAccepted(cis, ci_id, row)
                THEN /\ cis' = [cis EXCEPT ![ci_id] = row]
                     /\ clock' = clock + 1
                     /\ resp' = Response("edit_ci_ui", "ok", 302, ci_id, row)
                ELSE /\ resp' = Response("edit_ci_ui", "UnexpectedError", 200, ci_id, NoData)
                     /\ UNCHANGED <<cis, clock>>

\* delete_ci without the `if not ci` test: session.delete(None) raises
delete_ci_Unchecked(ci_id) ==
    /\ UNCHANGED todos
    /\ UNCHANGED <<clock, req>>
    /\ IF ci_id \notin DOMAIN cis
       THEN /\ resp' = Response("delete_ci", "UnexpectedError", 500, ci_id, NoData)
            /\ UNCHANGED <<cis, rels>>
       ELSE /\ rels' = Without(rels, CascadeOf(rels, ci_id))
            /\ cis' = Without(cis, {ci_id})
            /\ resp' = Response("delete_ci", "ok", 204, ci_id, NoData)

\* DELETE /api/ci/<ci_id>: session.delete(ci) marks the CI and, through the
\* two cascading collections, its relationships; commit removes them together
delete_ci(ci_id) ==
    /\ UNCHANGED todos
    /\ UNCHANGED <<clock, req>>
    /\ IF ci_id \notin DOMAIN cis
       THEN /\ resp' = Response("delete_ci", "NotFoundError", 404, ci_id, NoData)
            /\ UNCHANGED <<cis, rels>>
       ELSE /\ rels' = Without(rels, CascadeOf(rels, ci_id))
            /\ cis' = Without(cis, {ci_id})
            /\ resp' = Response("delete_ci", "ok", 204, ci_id, NoData)

\* POST /ui/ci/<ci_id>/delete
delete_ci_ui(ci_id) ==
    /\ UNCHANGED todos
    /\ UNCHANGED <<clock, req>>
    /\ IF ci_id \notin DOMAIN cis
       THEN /\ resp' = Response("delete_ci_ui", "NotFoundError", 302, ci_id, NoData)
            /\ UNCHANGED <<cis, rels>>
       ELSE /\ rels' = Without(rels, CascadeOf(rels, ci_id))
            /\ cis' = Without(cis, {ci_id})
            /\ resp' = Response("delete_ci_ui", "ok", 302, ci_id, NoData)

\* create_relationship without the `source_ci_id == target_ci_id` test
create_relationship_NoSelfCheck(data) ==
    /\ UNCHANGED todos
    /\ NextId(rels) <= MaxRelId
    /\ UNCHANGED <<cis, clock, req>>
    /\ IF data.relationship_type = ABSENT
       THEN /\ resp' = Response("create_relationship", "ValidationError", 400, 0, Err("missing fields"))
            /\ UNCHANGED rels
       ELSE IF data.relationship_type \notin ALLOWED_RELATIONSHIP_TYPES
       THEN /\ resp' = Response("create_relationship", "ValidationError", 400, 0, Err("invalid type"))
            /\ UNCHANGED rels
       ELSE IF data.source_ci_id \notin DOMAIN cis
       THEN /\ resp' = Response("create_relationship", "NotFoundError", 404, 0, Err("source not found"))
            /\ UNCHANGED rels
       ELSE IF data.target_ci_id \notin DOMAIN cis
       THEN /\ resp' = Response("create_relationship", "NotFoundError", 404, 0, Err("target not found"))
            /\ UNCHANGED rels
       ELSE LET id  == NextId(rels)
                row == NewRel(data)
            IN  IF RelRowAccepted(cis, row)
                THEN /\ rels' = (id :> row) @@ rels
                     /\ resp' = Response("create_relationship", "ok", 201, id, row)
                ELSE /\ resp' = IF row.source_ci_id = row.target_ci_id
                                THEN Response("create_relationship", "ValidationError",
                                              400, 0, Err("ck_not_self_referential"))
                                ELSE Response("create_relationship", "IntegrityError",
                                              400, 0, Err("integrity"))
                     /\ UNCHANGED rels

\* create_relationship without the `relationship_type not in ALLOWED_RELATIONSHIP_TYPES` test
create_relationship_NoTypeCheck(data) ==
    /\ UNCHANGED todos
    /\ NextId(rels) <= MaxRelId
    /\ UNCHANGED <<cis, clock, req>>
    /\ IF data.relationship_type = ABSENT
       THEN /\ resp' = Response("create_relationship", "ValidationError", 400, 0, Err("missing fields"))
            /\ UNCHANGED rels
       ELSE IF data.source_ci_id = data.target_ci_id
       THEN /\ resp' = Response("create_relationship", "ValidationError", 400, 0, Err("same ci"))
            /\ UNCHANGED rels
       ELSE IF data.source_ci_id \notin DOMAIN cis
       THEN /\ resp' = Response("create_relationship", "NotFoundError", 404, 0, Err("source not found"))
            /\ UNCHANGED rels
       ELSE IF data.target_ci_id \notin DOMAIN cis
       THEN /\ resp' = Response("create_relationship", "NotFoundError", 404, 0, Err("target not found"))
            /\ UNCHANGED rels
       ELSE LET id  == NextId(rels)
                row == NewRel(data)
            IN  IF RelRowAccepted(cis, row)
                THEN /\ rels' = (id :> row) @@ rels
                     /\ resp' = Response("create_relationship", "ok", 201, id, row)
                ELSE /\ resp' = IF row.source_ci_id = row.target_ci_id
                                THEN Response("create_relationship", "ValidationError",
                                              400, 0, Err("ck_not_self_referential"))
                                ELSE Response("create_relationship", "IntegrityError",
                                              400, 0, Err("integrity"))
                     /\ UNCHANGED rels

\* create_relationship without the `if not target_ci` test
create_relationship_SourceOnly(data) ==
    /\ UNCHANGED todos
    /\ NextId(rels) <= MaxRelId
    /\ UNCHANGED <<cis, clock, req>>
    /\ IF data.relationship_type = ABSENT
       THEN /\ resp' = Response("create_relationship", "ValidationError", 400, 0, Err("missing fields"))
            /\ UNCHANGED rels
       ELSE IF data.source_ci_id = data.target_ci_id
       THEN /\ resp' = Response("create_relationship", "ValidationError", 400, 0, Err("same ci"))
            /\ UNCHANGED rels
       ELSE IF data.relationship_type \notin ALLOWED_RELATIONSHIP_TYPES
       THEN /\ resp' = Response("create_relationship", "ValidationError", 400, 0, Err("invalid type"))
            /\ UNCHANGED rels
       ELSE IF data.source_ci_id \notin DOMAIN cis
       THEN /\ resp' = Response("create_relationship", "NotFoundError", 404, 0, Err("source not found"))
            /\ UNCHANGED rels
       ELSE LET id  == NextId(rels)
                row == NewRel(data)
            IN  IF RelRowAccepted(cis, row)
                THEN /\ rels' = (id :> row) @@ rels
                     /\ resp' = Response("create_relationship", "ok", 201, id, row)
                ELSE /\ resp' = IF row.source_ci_id = row.target_ci_id
                                THEN Response("create_relationship", "ValidationError",
                                              400, 0, Err("ck_not_self_referential"))
                                ELSE Response("create_relationship", "IntegrityError",
                                              400, 0, Err("integrity"))
                     /\ UNCHANGED rels

\* create_relationship with the commented-out `existing_rel` test (546-553) in
\* force
create_relationship_Unique(data) ==
    /\ UNCHANGED todos
    /\ NextId(rels) <= MaxRelId
    /\ UNCHANGED <<cis, clock, req>>
    /\ IF data.relationship_type = ABSENT
       THEN /\ resp' = Response("create_relationship", "ValidationError", 400, 0, Err("missing fields"))
            /\ UNCHANGED rels
       ELSE IF data.source_ci_id = data.target_ci_id
       THEN /\ resp' = Response("create_relationship", "ValidationError", 400, 0, Err("same ci"))
            /\ UNCHANGED rels
       ELSE IF data.relationship_type \notin ALLOWED_RELATIONSHIP_TYPES
       THEN /\ resp' = Response("create_relationship", "ValidationError", 400, 0, Err("invalid type"))
            /\ UNCHANGED rels
       ELSE IF data.source_ci_id \notin DOMAIN cis
       THEN /\ resp' = Response("create_relationship", "NotFoundError", 404, 0, Err("source not found"))
            /\ UNCHANGED rels
       ELSE IF data.target_ci_id \notin DOMAIN cis
       THEN /\ resp' = Response("create_relationship", "NotFoundError", 404, 0, Err("target not found"))
            /\ UNCHANGED rels
       ELSE IF \E r \in DOMAIN rels : rels[r] = NewRel(data)
       THEN /\ resp' = Response("create_relationship", "ValidationError", 400, 0, Err("already exists"))
            /\ UNCHANGED rels
       ELSE LET id  == NextId(rels)
                row == NewRel(data)
            IN  IF RelRowAccepted(cis, row)
                THEN /\ rels' = (id :> row) @@ rels
                     /\ resp' = Response("create_relationship", "ok", 201, id, row)
                ELSE /\ resp' = IF row.source_ci_id = row.target_ci_id
                                THEN Response("create_relationship", "ValidationError",
                                              400, 0, Err("ck_not_self_referential"))
                                ELSE Response("create_relationship", "IntegrityError",
                                              400, 0, Err("integrity"))
                     /\ UNCHANGED rels

\* POST /api/relationship
create_relationship(data) ==
    /\ UNCHANGED todos
    /\ NextId(rels) <= MaxRelId
    /\ UNCHANGED <<cis, clock, req>>
    /\ IF data.relationship_type = ABSENT
       THEN /\ resp' = Response("create_relationship", "ValidationError", 400, 0, Err("missing fields"))
            /\ UNCHANGED rels
       ELSE IF data.source_ci_id = data.target_ci_id
       THEN /\ resp' = Response("create_relationship", "ValidationError", 400, 0, Err("same ci"))
            /\ UNCHANGED rels
       ELSE IF data.relationship_type \notin ALLOWED_RELATIONSHIP_TYPES
       THEN /\ resp' = Response("create_relationship", "ValidationError", 400, 0, Err("invalid type"))
            /\ UNCHANGED rels
       ELSE IF data.source_ci_id \notin DOMAIN cis
       THEN /\ resp' = Response("create_relationship", "NotFoundError", 404, 0, Err("source not found"))
            /\ UNCHANGED rels
       ELSE IF data.target_ci_id \notin DOMAIN cis
       THEN /\ resp' = Response("create_relationship", "NotFoundError", 404, 0, Err("target not found"))
            /\ UNCHANGED rels
       ELSE LET id  == NextId(rels)
                row == NewRel(data)
            IN  IF RelRowAccepted(cis, row)
                THEN /\ rels' = (id :> row) @@ rels
                     /\ resp' = Response("create_relationship", "ok", 201, id, row)
                ELSE /\ resp' = IF row.source_ci_id = row.target_ci_id
                                THEN Response("create_relationship", "ValidationError",
                                              400, 0, Err("ck_not_self_referential"))
                                ELSE Response("create_relationship", "IntegrityError",
                                              400, 0, Err("integrity"))
                     /\ UNCHANGED rels

\* delete_relationship deleting by the row's source and target rather than by
\* its id
delete_relationship_SamePair(rel_id) ==
    /\ UNCHANGED todos
    /\ UNCHANGED <<cis, clock, req>>
    /\ IF rel_id \notin DOMAIN rels
       THEN /\ resp' = Response("delete_relationship", "NotFoundError", 404, rel_id, NoData)
            /\ UNCHANGED rels
       ELSE /\ rels' = Without(rels, {r \in DOMAIN rels :
                            /\ rels[r].source_ci_id = rels[rel_id].source_ci_id
                            /\ rels[r].target_ci_id = rels[rel_id].target_ci_id})
            /\ resp' = Response("delete_relationship", "ok", 204, rel_id, NoData)

\* DELETE /api/relationship/<rel_id>
delete_relationship(rel_id) ==
    /\ UNCHANGED todos
    /\ UNCHANGED <<cis, clock, req>>
    /\ IF rel_id \notin DOMAIN rels
       THEN /\ resp' = Response("delete_relationship", "NotFoundError", 404, rel_id, NoData)
            /\ UNCHANGED rels
       ELSE /\ rels' = Without(rels, {rel_id})
            /\ resp' = Response("delete_relationship", "ok", 204, rel_id, NoData)

Next ==
    \/ \E data \in CICreateData : create_ci(data)
    \/ \E form \in CICreateData : add_ci_ui(form)
    \/ \E id \in CIIds, data \in CIData : update_ci(id, data)
    \/ \E id \in CIIds, form \in CIData : edit_ci_ui(id, form)
    \/ \E id \in CIIds : delete_ci(id)
    \/ \E id \in CIIds : delete_ci_ui(id)
    \/ \E data \in RelCreateData : create_relationship(data)
    \/ \E id \in RelIds : delete_relationship(id)

Spec == Init /\ [][Next]_vars

(***************************************************************************)
(* SpecStorage: rows written straight through the session, the way         *)
(* seed_db_command writes them (db.session.add_all(...); commit()), with no *)
(* handler in front.  What is stored is what SQLite accepts.               *)
(***************************************************************************)
\* db.session.add(ConfigurationItem(...)); db.session.commit()
session_add_ci(data) ==
    /\ UNCHANGED todos
    /\ clock < MaxClock
    /\ NextId(cis) <= MaxCiId
    /\ UNCHANGED <<rels, req>>
    /\ LET id  == NextId(cis)
           row == NewCI(data, clock + 1)
       IN  IF CIRowAccepted(cis, id, row)
           THEN /\ cis' = (id :> row) @@ cis
                /\ clock' = clock + 1
                /\ resp' = Response("session_add_ci", "ok", 0, id, NoData)
           ELSE /\ resp' = Response("session_add_ci", "IntegrityError", 0, 0, NoData)
                /\ UNCHANGED <<cis, clock>>

\* db.session.add(Relationship(...)); db.session.commit()
session_add_relationship(data) ==
    /\ UNCHANGED todos
    /\ NextId(rels) <= MaxRelId
    /\ UNCHANGED <<cis, clock, req>>
    /\ LET id  == NextId(rels)
           row == NewRel(data)
       IN  IF RelRowAccepted(cis, row)
           THEN /\ rels' = (id :> row) @@ rels
                /\ resp' = Response("session_add_relationship", "ok", 0, id, NoData)
           ELSE /\ resp' = Response("session_add_relationship", "IntegrityError", 0, 0, row)
                /\ UNCHANGED rels

SeedCIData  == {d \in CIData : d.ci_name \in Names /\ d.ci_type # ABSENT /\ d.owner = ABSENT}
SeedRelData == {d \in RelData : d.relationship_type \in {"Depends on", ABSENT}}

NextStorage ==
    \/ \E data \in SeedCIData : session_add_ci(data)
    \/ \E data \in SeedRelData : session_add_relationship(data)
    \/ \E data \in SeedRelData : create_relationship(data)

SpecStorage == Init /\ [][NextStorage]_vars

(***************************************************************************)
(* SpecQuery: the read routes, over what the create routes have stored.    *)
(* A read leaves both tables alone; its response carries the rows it       *)
(* returns, as the sequence of their ids.                                  *)
(***************************************************************************)
\* str.lower() and the case folding of ILIKE, on the strings used here
Lower(s) ==
    CASE s = "SOURCE" -> "source"
      [] s = "B"      -> "b"
      [] s = "OP"     -> "op"
      [] OTHER        -> s

\* the substrings of a stored string: what a LIKE '%...%' pattern can match
Substrings(s) ==
    CASE s = "ops" -> {"", "o", "p", "s", "op", "ps", "ops"}
      [] OTHER     -> {"", s}

\* column.ilike(f"%{pattern}%"); NULL matches nothing
ILike(value, pattern) ==
    value # None /\ Lower(pattern) \in Substrings(Lower(value))

\* the place of a name in SQLite's BINARY collation, which ORDER BY uses
NameRank(name) ==
    CASE name = ""  -> 0
      [] name = "a" -> 1
      [] name = "b" -> 2
      [] name = "c" -> 3

\* query.all() with no ORDER BY: SQLite scans the table in rowid order
RECURSIVE RowidOrder(_)
RowidOrder(ids) ==
    IF ids = {} THEN <<>>
    ELSE LET m == CHOOSE x \in ids : \A y \in ids : x <= y
         IN  <<m>> \o RowidOrder(ids \ {m})

\* query.order_by(ConfigurationItem.ci_name).all()
RECURSIVE OrderByName(_, _)
OrderByName(table, ids) ==
    IF ids = {} THEN <<>>
    ELSE LET m == CHOOSE x \in ids : \A y \in ids :
                     \/ NameRank(table[x].ci_name) < NameRank(table[y].ci_name)
                     \/ /\ NameRank(table[x].ci_name) = NameRank(table[y].ci_name)
                        /\ x <= y
         IN  <<m>> \o OrderByName(table, ids \ {m})

Listing(args, rows) == [args |-> args, rows |-> rows]

\* get_relationships_for_ci with an unknown direction taken as 'all'
get_relationships_for_ci_Defaulting(ci_id, direction) ==
    /\ UNCHANGED todos
    /\ UNCHANGED <<cis, rels, clock, req>>
    /\ IF ci_id \notin DOMAIN cis
       THEN resp' = Response("get_relationships_for_ci", "NotFoundError", 404, ci_id,
                             Listing(direction, <<>>))
       ELSE LET d == Lower(IF direction = ABSENT THEN "all" ELSE direction)
            IN  IF d = "source"
                THEN resp' = Response("get_relationships_for_ci", "ok", 200, ci_id,
                         Listing(direction, RowidOrder({r \in DOMAIN rels :
                             rels[r].source_ci_id = ci_id})))
                ELSE IF d = "target"
                THEN resp' = Response("get_relationships_for_ci", "ok", 200, ci_id,
                         Listing(direction, RowidOrder({r \in DOMAIN rels :
                             rels[r].target_ci_id = ci_id})))
                ELSE resp' = Response("get_relationships_for_ci", "ok", 200, ci_id,
                         Listing(direction, RowidOrder({r \in DOMAIN rels :
                             \/ rels[r].source_ci_id = ci_id
                             \/ rels[r].target_ci_id = ci_id})))

\* get_relationships_for_ci with the 'target' branch filtering on the source
\* column
get_relationships_for_ci_TargetAsSource(ci_id, direction) ==
    /\ UNCHANGED todos
    /\ UNCHANGED <<cis, rels, clock, req>>
    /\ IF ci_id \notin DOMAIN cis
       THEN resp' = Response("get_relationships_for_ci", "NotFoundError", 404, ci_id,
                             Listing(direction, <<>>))
       ELSE LET d == Lower(IF direction = ABSENT THEN "all" ELSE direction)
            IN  IF d = "source"
                THEN resp' = Response("get_relationships_for_ci", "ok", 200, ci_id,
                         Listing(direction, RowidOrder({r \in DOMAIN rels :
                             rels[r].source_ci_id = ci_id})))
                ELSE IF d = "target"
                THEN resp' = Response("get_relationships_for_ci", "ok", 200, ci_id,
                         Listing(direction, RowidOrder({r \in DOMAIN rels :
                             rels[r].source_ci_id = ci_id})))
                ELSE IF d = "all"
                THEN resp' = Response("get_relationships_for_ci", "ok", 200, ci_id,
                         Listing(direction, RowidOrder({r \in DOMAIN rels :
                             \/ rels[r].source_ci_id = ci_id
                             \/ rels[r].target_ci_id = ci_id})))
                ELSE resp' = Response("get_relationships_for_ci", "ValidationError", 400,
                                      ci_id, Listing(direction, <<>>))

\* GET /api/ci/<ci_id>/relationships?direction=...
get_relationships_for_ci(ci_id, direction) ==
    /\ UNCHANGED todos
    /\ UNCHANGED <<cis, rels, clock, req>>
    /\ IF ci_id \notin DOMAIN cis
       THEN resp' = Response("get_relationships_for_ci", "NotFoundError", 404, ci_id,
                             Listing(direction, <<>>))
       ELSE LET d == Lower(IF direction = ABSENT THEN "all" ELSE direction)
            IN  IF d = "source"
                THEN resp' = Response("get_relationships_for_ci", "ok", 200, ci_id,
                         Listing(direction, RowidOrder({r \in DOMAIN rels :
                             rels[r].source_ci_id = ci_id})))
                ELSE IF d = "target"
                THEN resp' = Response("get_relationships_for_ci", "ok", 200, ci_id,
                         Listing(direction, RowidOrder({r \in DOMAIN rels :
                             rels[r].target_ci_id = ci_id})))
                ELSE IF d = "all"
                THEN resp' = Response("get_relationships_for_ci", "ok", 200, ci_id,
                         Listing(direction, RowidOrder({r \in DOMAIN rels :
                             \/ rels[r].source_ci_id = ci_id
                             \/ rels[r].target_ci_id = ci_id})))
                ELSE resp' = Response("get_relationships_for_ci", "ValidationError", 400,
                                      ci_id, Listing(direction, <<>>))

\* GET /api/cis?ci_type=...&status=...&owner=...&ci_name=...: a parameter
\* that is missing or empty does not filter; no ORDER BY
get_all_cis(args) ==
    /\ UNCHANGED todos
    /\ UNCHANGED <<cis, rels, clock, req>>
    /\ resp' = Response("get_all_cis", "ok", 200, 0,
          Listing(args, RowidOrder({i \in DOMAIN cis :
              /\ Falsy(args.ci_type) \/ cis[i].ci_type = args.ci_type
              /\ Falsy(args.status) \/ cis[i].status = args.status
              /\ Falsy(args.owner) \/ cis[i].owner = args.owner
              /\ Falsy(args.ci_name) \/ ILike(cis[i].ci_name, args.ci_name)})))

\* GET /ui/cis?...: the owner is matched as the name is; ORDER BY ci_name
list_cis_ui(args) ==
    /\ UNCHANGED todos
    /\ UNCHANGED <<cis, rels, clock, req>>
    /\ resp' = Response("list_cis_ui", "ok", 200, 0,
          Listing(args, OrderByName(cis, {i \in DOMAIN cis :
              /\ Falsy(args.ci_name) \/ ILike(cis[i].ci_name, args.ci_name)
              /\ Falsy(args.ci_type) \/ cis[i].ci_type = args.ci_type
              /\ Falsy(args.status) \/ cis[i].status = args.status
              /\ Falsy(args.owner) \/ ILike(cis[i].owner, args.owner)})))

\* the CIs the queries run over: two databases and a server with an owner
QueryCIData ==
    {d \in CIFields :
        /\ d.status = "Active"
        /\ \/ d.ci_name \in {"a", "b"} /\ d.ci_type = "Database" /\ d.owner = ABSENT
           \/ d.ci_name = "c" /\ d.ci_type = "Server" /\ d.owner = "ops"}

Directions == {ABSENT, "source", "target", "all", "SOURCE", "sideways", ""}

\* request.args of the two listings: a type alone (given, empty or missing),
\* a type with a name pattern, and an owner pattern alone
QueryArgs ==
    {a \in [ci_type : {ABSENT, "", "Database", "Server"}, status : {ABSENT},
            owner : {ABSENT, "OP"}, ci_name : {ABSENT, "B"}] :
        \/ a.owner = ABSENT /\ a.ci_name = ABSENT
        \/ a.owner = ABSENT /\ a.ci_type = "Database"
        \/ a.ci_name = ABSENT /\ a.ci_type = ABSENT}

NextQuery ==
    \/ \E data \in QueryCIData : create_ci(data)
    \/ \E data \in RelData : create_relationship(data)
    \/ \E id \in CIIds, direction \in Directions : get_relationships_for_ci(id, direction)
    \/ \E args \in QueryArgs : get_all_cis(args)
    \/ \E args \in QueryArgs : list_cis_ui(args)

SpecQuery == Init /\ [][NextQuery]_vars

(***************************************************************************)
(* SpecConc: two workers, each serving one request at a time.  A handler   *)
(* is split where it talks to the database: what it read before a split    *)
(* may be stale when it commits.  A commit is one SQLite transaction.      *)
(***************************************************************************)
InFlight(op, pc, id, data, loaded) ==
    [op |-> op, pc |-> pc, id |-> id, data |-> data, loaded |-> loaded,
     kind |-> "none"]

Done(r, kind, id) == [r EXCEPT !.pc = "done", !.kind = kind, !.id = id]

ConcCIData  == {d \in CIData : /\ d.ci_name \in {"a", "b"} /\ d.status # None
                                /\ d.owner = ABSENT}
SetupCIData == {d \in ConcCIData : d.ci_type # ABSENT}
ConcRelData == {d \in RelData : d.relationship_type \in {"Depends on", "Hacks into"}}

\* create_ci up to `new_ci = ConfigurationItem(...)`
create_ci_begin(p, data) ==
    /\ UNCHANGED todos
    /\ req[p].pc = "idle"
    /\ UNCHANGED <<cis, rels, clock, resp>>
    /\ req' = [req EXCEPT ![p] =
          IF Falsy(data.ci_name) \/ Falsy(data.ci_type) \/ Falsy(data.status)
          THEN Done(InFlight("create_ci", "begin", 0, data, {}), "ValidationError", 0)
          ELSE InFlight("create_ci", "commit", 0, data, {})]

\* create_ci: db.session.add(new_ci); db.session.commit()
create_ci_commit(p) ==
    /\ UNCHANGED todos
    /\ req[p].op = "create_ci" /\ req[p].pc = "commit"
    /\ clock < MaxClock
    /\ NextId(cis) <= MaxCiId
    /\ UNCHANGED <<rels, resp>>
    /\ LET id  == NextId(cis)
           row == NewCI(req[p].data, clock + 1)
       IN  IF CIRowAccepted(cis, id, row)
           THEN /\ cis' = (id :> row) @@ cis
                /\ clock' = clock + 1
                /\ req' = [req EXCEPT ![p] = Done(@, "ok", id)]
           ELSE /\ req' = [req EXCEPT ![p] = Done(@, "DuplicateNameError", 0)]
                /\ UNCHANGED <<cis, clock>>

\* add_ci_ui up to the `existing_ci` query
add_ci_ui_check(p, form) ==
    /\ UNCHANGED todos
    /\ req[p].pc = "idle"
    /\ UNCHANGED <<cis, rels, clock, resp>>
    /\ req' = [req EXCEPT ![p] =
          IF Falsy(form.ci_name) \/ Falsy(form.ci_type) \/ Falsy(form.status)
          THEN Done(InFlight("add_ci_ui", "check", 0, form, {}), "ValidationError", 0)
          ELSE IF \E j \in DOMAIN cis : cis[j].ci_name = form.ci_name
          THEN Done(InFlight("add_ci_ui", "check", 0, form, {}), "DuplicateNameError", 0)
          ELSE InFlight("add_ci_ui", "commit", 0, form, {})]

\* add_ci_ui: db.session.add(new_ci); db.session.commit(), `except Exception`
add_ci_ui_commit(p) ==
    /\ UNCHANGED todos
    /\ req[p].op = "add_ci_ui" /\ req[p].pc = "commit"
    /\ clock < MaxClock
    /\ NextId(cis) <= MaxCiId
    /\ UNCHANGED <<rels, resp>>
    /\ LET id  == NextId(cis)
           row == NewCI(req[p].data, clock + 1)
       IN  IF CIRowAccepted(cis, id, row)
           THEN /\ cis' = (id :> row) @@ cis
                /\ clock' = clock + 1
                /\ req' = [req EXCEPT ![p] = Done(@, "ok", id)]
           ELSE /\ req' = [req EXCEPT ![p] = Done(@, "UnexpectedError", 0)]
                /\ UNCHANGED <<cis, clock>>

\* delete_ci / delete_ci_ui: ci = db.session.get(ConfigurationItem, ci_id)
delete_ci_get(p, op, ci_id) ==
    /\ UNCHANGED todos
    /\ req[p].pc = "idle"
    /\ UNCHANGED <<cis, rels, clock, resp>>
    /\ req' = [req EXCEPT ![p] =
          IF ci_id \notin DOMAIN cis
          THEN Done(InFlight(op, "get", ci_id, NoData, {}), "NotFoundError", ci_id)
          ELSE InFlight(op, "delete", ci_id, NoData, {})]

\* db.session.delete(ci): the cascade loads the CI's two collections
delete_ci_delete(p) ==
    /\ UNCHANGED todos
    /\ req[p].op \in {"delete_ci", "delete_ci_ui"} /\ req[p].pc = "delete"
    /\ UNCHANGED <<cis, rels, clock, resp>>
    /\ req' = [req EXCEPT ![p] = [req[p] EXCEPT !.pc = "commit",
                                  !.loaded = CascadeOf(rels, req[p].id)]]

\* db.session.commit(): DELETE of each loaded relationship and of the CI by
\* primary key, in one transaction; a row already gone is only warned about
delete_ci_commit(p) ==
    /\ UNCHANGED todos
    /\ req[p].op \in {"delete_ci", "delete_ci_ui"} /\ req[p].pc = "commit"
    /\ UNCHANGED <<clock, resp>>
    /\ rels' = Without(rels, req[p].loaded)
    /\ cis' = Without(cis, {req[p].id})
    /\ req' = [req EXCEPT ![p] = Done(@, "ok", @.id)]

\* create_relationship up to the two db.session.get lookups
create_relationship_lookup(p, data) ==
    /\ UNCHANGED todos
    /\ req[p].pc = "idle"
    /\ UNCHANGED <<cis, rels, clock, resp>>
    /\ req' = [req EXCEPT ![p] =
          IF \/ data.relationship_type = ABSENT
             \/ data.source_ci_id = data.target_ci_id
             \/ data.relationship_type \notin ALLOWED_RELATIONSHIP_TYPES
          THEN Done(InFlight("create_relationship", "lookup", 0, data, {}),
                    "ValidationError", 0)
          ELSE IF \/ data.source_ci_id \notin DOMAIN cis
                  \/ data.target_ci_id \notin DOMAIN cis
          THEN Done(InFlight("create_relationship", "lookup", 0, data, {}),
                    "NotFoundError", 0)
          ELSE InFlight("create_relationship", "commit", 0, data, {})]

\* create_relationship: db.session.add(new_relationship); db.session.commit()
create_relationship_commit(p) ==
    /\ UNCHANGED todos
    /\ req[p].op = "create_relationship" /\ req[p].pc = "commit"
    /\ NextId(rels) <= MaxRelId
    /\ UNCHANGED <<cis, clock, resp>>
    /\ LET id  == NextId(rels)
           row == NewRel(req[p].data)
       IN  IF RelRowAccepted(cis, row)
           THEN /\ rels' = (id :> row) @@ rels
                /\ req' = [req EXCEPT ![p] = [@ EXCEPT !.pc = "refresh", !.id = id]]
           ELSE /\ req' = [req EXCEPT ![p] =
                      Done(@, IF row.source_ci_id = row.target_ci_id
                              THEN "ValidationError" ELSE "IntegrityError", 0)]
                /\ UNCHANGED rels

\* create_relationship: db.session.refresh(new_relationship) and the response;
\* the refresh raises when the row is no longer there
create_relationship_refresh(p) ==
    /\ UNCHANGED todos
    /\ req[p].op = "create_relationship" /\ req[p].pc = "refresh"
    /\ UNCHANGED <<cis, rels, clock, resp>>
    /\ req' = [req EXCEPT ![p] =
          IF @.id \in DOMAIN rels THEN Done(@, "ok", @.id)
          ELSE Done(@, "UnexpectedError", @.id)]

\* the response leaves the worker, which takes the next request
Return(p) ==
    /\ UNCHANGED todos
    /\ req[p].pc = "done"
    /\ UNCHANGED <<cis, rels, clock, resp>>
    /\ req' = [req EXCEPT ![p] = Idle]

\* SpecConc: cascade deletes against relationship creates, over CIs that
\* earlier requests have stored
NextConc ==
    \/ \E data \in SetupCIData : create_ci(data)
    \/ \E p \in Procs, op \in {"delete_ci", "delete_ci_ui"}, id \in CIIds :
          delete_ci_get(p, op, id)
    \/ \E p \in Procs : delete_ci_delete(p)
    \/ \E p \in Procs : delete_ci_commit(p)
    \/ \E p \in Procs, data \in ConcRelData : create_relationship_lookup(p, data)
    \/ \E p \in Procs : create_relationship_commit(p)
    \/ \E p \in Procs : create_relationship_refresh(p)
    \/ \E p \in Procs : Return(p)

SpecConc == Init /\ [][NextConc]_vars

\* SpecConcCreate: CI creates against CI creates
NextConcCreate ==
    \/ \E p \in Procs, data \in ConcCIData : create_ci_begin(p, data)
    \/ \E p \in Procs : create_ci_commit(p)
    \/ \E p \in Procs, form \in ConcCIData : add_ci_ui_check(p, form)
    \/ \E p \in Procs : add_ci_ui_commit(p)
    \/ \E p \in Procs : Return(p)

SpecConcCreate == Init /\ [][NextConcCreate]_vars

(***************************************************************************)
(* SpecRoundTrip: CI creates, as in SpecConcCreate, and reads of single    *)
(* CIs.  The worker that served a create keeps its payload and the id it   *)
(* returned until its response has left.                                   *)
(***************************************************************************)
\* datetime.isoformat(): the timestamp as text
Isoformat(t) == ToString(t)

\* ci_to_dict(ci); last_updated, filled by the column default on every insert,
\* is never NULL
ci_to_dict(id, ci) ==
    [id           |-> id,
     ci_name      |-> ci.ci_name,
     ci_type      |-> ci.ci_type,
     status       |-> ci.status,
     owner        |-> ci.owner,
     ip_location  |-> ci.ip_location,
     description  |-> ci.description,
     last_updated |-> Isoformat(ci.last_updated)]

\* GET /api/ci/<ci_id>
get_ci(ci_id) ==
    /\ UNCHANGED todos
    /\ UNCHANGED <<cis, rels, clock, req>>
    /\ IF ci_id \in DOMAIN cis
       THEN resp' = Response("get_ci", "ok", 200, ci_id, ci_to_dict(ci_id, cis[ci_id]))
       ELSE resp' = Response("get_ci", "NotFoundError", 404, ci_id, NoData)

\* the payloads created: two names, with and without an owner
RoundTripData ==
    {d \in CIFields :
        /\ d.status = "Active"
        /\ \/ d.ci_name = "a" /\ d.ci_type = "Server"
           \/ d.ci_name = "b" /\ d.ci_type = "Database"}

NextRoundTrip ==
    \/ \E p \in Procs, data \in RoundTripData : create_ci_begin(p, data)
    \/ \E p \in Procs : create_ci_commit(p)
    \/ \E p \in Procs, form \in RoundTripData : add_ci_ui_check(p, form)
    \/ \E p \in Procs : add_ci_ui_commit(p)
    \/ \E p \in Procs : Return(p)
    \/ \E id \in CIIds : get_ci(id)

SpecRoundTrip == Init /\ [][NextRoundTrip]_vars

(***************************************************************************)
(* SpecTodo: the to-do list, a Python list in the process's memory.  A     *)
(* text is the sequence of its characters; a position in the list is       *)
(* counted from 0 in a request and from 1 in the sequence.                 *)
(***************************************************************************)
MaxTodos   == 3    \* items the list holds at most
MaxTextLen == 3    \* characters of a posted text at most

Whitespace == {" "}

Chars == Whitespace \cup {"x"}

\* request.form.get('todo', ''): the posted text, '' when the field is missing
TodoTexts == UNION {[1..n -> Chars] : n \in 0..MaxTextLen}

\* the <int:todo_id> converter matches non-negative integers only
TodoIds == 0..(MaxTodos + 1)

RECURSIVE lstrip(_)
lstrip(s) ==
    IF s # <<>> /\ Head(s) \in Whitespace THEN lstrip(Tail(s)) ELSE s

RECURSIVE rstrip(_)
rstrip(s) ==
    IF s # <<>> /\ s[Len(s)] \in Whitespace
    THEN rstrip(SubSeq(s, 1, Len(s) - 1))
    ELSE s

strip_LeadingOnly(s) == lstrip(s)

strip(s) == rstrip(lstrip(s))

\* list.pop(i), i counted from 0
pop(list, i) == SubSeq(list, 1, i) \o SubSeq(list, i + 2, Len(list))

add_todo(text) ==
    /\ UNCHANGED <<cis, rels, clock, req>>
    /\ LET todo == strip(text) IN
       IF todo # <<>>
       THEN /\ Len(todos) < MaxTodos
            /\ todos' = Append(todos, todo)
            /\ resp' = Response("add_todo", "ok", 302, 0, NoData)
       ELSE /\ todos' = todos
            /\ resp' = Response("add_todo", "ok", 200, 0, NoData)

\* with the bound written <=: pop raises IndexError at todo_id = len(todos)
remove_todo_Inclusive(todo_id) ==
    /\ UNCHANGED <<cis, rels, clock, req>>
    /\ IF 0 <= todo_id /\ todo_id < Len(todos)
       THEN /\ todos' = pop(todos, todo_id)
            /\ resp' = Response("remove_todo", "ok", 302, todo_id, NoData)
       ELSE IF todo_id = Len(todos)
       THEN /\ todos' = todos
            /\ resp' = Response("remove_todo", "UnexpectedError", 500,
                                todo_id, NoData)
       ELSE /\ todos' = todos
            /\ resp' = Response("remove_todo", "ok", 302, todo_id, NoData)

remove_todo(todo_id) ==
    /\ UNCHANGED <<cis, rels, clock, req>>
    /\ IF 0 <= todo_id /\ todo_id < Len(todos)
       THEN todos' = pop(todos, todo_id)
       ELSE todos' = todos
    /\ resp' = Response("remove_todo", "ok", 302, todo_id, NoData)

NextTodo ==
    \/ \E text \in TodoTexts : add_todo(text)
    \/ \E todo_id \in TodoIds : remove_todo(todo_id)

SpecTodo == Init /\ [][NextTodo]_vars

(***************************************************************************)
(* SpecUpdate: the create and update routes of a CI, with payloads in      *)
(* which a required field is an empty string.                              *)
(***************************************************************************)
\* the payloads used: each of the three required fields given, empty or
\* missing
CIUpdateData ==
    {d \in CIFields :
        /\ d.ci_name \in {"a", "", ABSENT}
        /\ d.ci_type \in {"Server", "", ABSENT}
        /\ d.status \in {"Active", "", ABSENT}
        /\ d.owner = ABSENT}

NextUpdate ==
    \/ \E data \in CICreateData : create_ci(data)
    \/ \E form \in CICreateData : add_ci_ui(form)
    \/ \E id \in CIIds, data \in CIUpdateData : update_ci(id, data)
    \/ \E id \in CIIds, form \in CIUpdateData : edit_ci_ui(id, form)

SpecUpdate == Init /\ [][NextUpdate]_vars

(***************************************************************************)
(* SpecRelUi: the UI route that deletes a relationship from a CI's page,   *)
(* over the relationships the create route stored and rows written         *)
(* through the session (among them rows with an endpoint that is not       *)
(* stored, as a create racing a CI delete leaves them in SpecConc).        *)
(***************************************************************************)
\* delete_relationship_ui without the test that the relationship involves
\* the CI of the page
delete_relationship_ui_AnyPage(rel_id, ci_id) ==
    /\ UNCHANGED todos
    /\ UNCHANGED <<cis, clock, req>>
    /\ IF rel_id \notin DOMAIN rels
       THEN /\ resp' = Response("delete_relationship_ui", "NotFoundError", 302,
                                rel_id, [ci_id |-> ci_id])
            /\ UNCHANGED rels
       ELSE IF \/ rels[rel_id].source_ci_id \notin DOMAIN cis
               \/ rels[rel_id].target_ci_id \notin DOMAIN cis
       THEN /\ resp' = Response("delete_relationship_ui", "UnexpectedError", 302,
                                rel_id, [ci_id |-> ci_id])
            /\ UNCHANGED rels
       ELSE /\ rels' = Without(rels, {rel_id})
            /\ resp' = Response("delete_relationship_ui", "ok", 302,
                                rel_id, [ci_id |-> ci_id])

\* POST /ui/relationship/<rel_id>/delete/from_ci/<ci_id>
delete_relationship_ui(rel_id, ci_id) ==
    /\ UNCHANGED todos
    /\ UNCHANGED <<cis, clock, req>>
    /\ IF rel_id \notin DOMAIN rels
       THEN /\ resp' = Response("delete_relationship_ui", "NotFoundError", 302,
                                rel_id, [ci_id |-> ci_id])
            /\ UNCHANGED rels
       ELSE IF /\ rels[rel_id].source_ci_id # ci_id
               /\ rels[rel_id].target_ci_id # ci_id
       THEN \* "Deletion aborted for safety."
            /\ resp' = Response("delete_relationship_ui", "Aborted", 302,
                                rel_id, [ci_id |-> ci_id])
            /\ UNCHANGED rels
       ELSE IF \/ rels[rel_id].source_ci_id \notin DOMAIN cis
               \/ rels[rel_id].target_ci_id \notin DOMAIN cis
       THEN \* rel.source_ci (rel.target_ci) is None: .ci_name raises
            \* AttributeError, caught by `except Exception`
            /\ resp' = Response("delete_relationship_ui", "UnexpectedError", 302,
                                rel_id, [ci_id |-> ci_id])
            /\ UNCHANGED rels
       ELSE /\ rels' = Without(rels, {rel_id})
            /\ resp' = Response("delete_relationship_ui", "ok", 302,
                                rel_id, [ci_id |-> ci_id])

NextRelUi ==
    \/ \E data \in QueryCIData : create_ci(data)
    \/ \E id \in CIIds : delete_ci(id)
    \/ \E data \in SeedRelData : create_relationship(data)
    \/ \E data \in SeedRelData : session_add_relationship(data)
    \/ \E rel_id \in RelIds, ci_id \in CIIds : delete_relationship_ui(rel_id, ci_id)

SpecRelUi == Init /\ [][NextRelUi]_vars

(***************************************************************************)
(* Properties.                                                             *)
(***************************************************************************)
Touches(row, id) == row.source_ci_id = id \/ row.target_ci_id = id

Valid(data) ==
    ~Falsy(data.ci_name) /\ ~Falsy(data.ci_type) /\ ~Falsy(data.status)

\* C1 (Spec): in every state reached by CI creates, updates and deletes
\* through the API and UI routes, no two stored CIs have the same name.
C1_UniqueNames ==
    \A i, j \in DOMAIN cis : i # j => cis[i].ci_name # cis[j].ci_name

\* a second CI is stored and a create or update was just refused for its name
C1_Witness ==
    /\ Cardinality(DOMAIN cis) >= 2
    /\ resp.kind = "DuplicateNameError"
    /\ \E j \in DOMAIN cis : resp.body = NameOf(cis[j].ci_name)

\* C2 (Spec): in every state reached by a sequence of CI and relationship
\* operations, the source and the target of every stored relationship are
\* stored CIs.
C2_NoDanglingRelationship ==
    \A r \in DOMAIN rels :
        /\ rels[r].source_ci_id \in DOMAIN cis
        /\ rels[r].target_ci_id \in DOMAIN cis

\* a CI was just deleted, its id is free, and a relationship between the
\* surviving CIs is still stored
C2_Witness ==
    /\ resp.op \in {"delete_ci", "delete_ci_ui"}
    /\ resp.kind = "ok"
    /\ resp.id \notin DOMAIN cis
    /\ DOMAIN rels # {}
    /\ Cardinality(DOMAIN cis) >= 2

\* C3 (SpecConc): when a relationship create and a cascade delete of one of
\* its endpoints X have both finished, the create succeeding and the delete
\* succeeding, the created relationship is not stored with X gone.
C3_RaceLeavesNoOrphan ==
    \A p, q \in Procs :
        ( /\ req[p].op = "create_relationship" /\ req[p].pc = "done"
          /\ req[p].kind = "ok"
          /\ req[q].op \in {"delete_ci", "delete_ci_ui"} /\ req[q].pc = "done"
          /\ req[q].kind = "ok"
          /\ Touches(req[p].data, req[q].id) )
        => ~ ( /\ req[p].id \in DOMAIN rels
               /\ Touches(rels[req[p].id], req[q].id)
               /\ req[q].id \notin DOMAIN cis )

\* C4 (SpecConcCreate): when two CI creates (create_ci or add_ci_ui) with the
\* same name have both finished, they did not both succeed, and if one
\* succeeded the other reported a duplicate-name error.
C4_ConcurrentCreateExclusive ==
    \A p, q \in Procs :
        ( /\ p # q
          /\ req[p].op \in {"create_ci", "add_ci_ui"} /\ req[p].pc = "done"
          /\ req[q].op \in {"create_ci", "add_ci_ui"} /\ req[q].pc = "done"
          /\ Valid(req[p].data) /\ Valid(req[q].data)
          /\ req[p].data.ci_name = req[q].data.ci_name
          /\ req[p].kind = "ok" )
        => req[q].kind = "DuplicateNameError"

\* C5 (Spec): deleting a stored CI X removes X and exactly the relationships
\* whose source or target is X; every other CI and relationship is unchanged.
C5_DeleteFrame ==
    [][resp'.op \in {"delete_ci", "delete_ci_ui"} => \A X \in CIIds :
          (X \in DOMAIN cis /\ (delete_ci(X) \/ delete_ci_ui(X))) =>
             /\ DOMAIN cis' = DOMAIN cis \ {X}
             /\ \A i \in DOMAIN cis' : cis'[i] = cis[i]
             /\ DOMAIN rels' = {r \in DOMAIN rels : ~Touches(rels[r], X)}
             /\ \A r \in DOMAIN rels' : rels'[r] = rels[r]]_vars

\* a delete has just removed a CI and the relationship that touched it (id 1),
\* leaving the relationship between two other CIs (id 2)
C5_Witness ==
    /\ resp.op \in {"delete_ci", "delete_ci_ui"}
    /\ resp.kind = "ok"
    /\ DOMAIN rels = {2}
    /\ Cardinality(DOMAIN cis) = 2
    /\ ~Touches(rels[2], resp.id)

\* C6 (SpecConc): the commit of a cascade delete of X leaves neither X nor
\* any relationship whose source or target is X.
C6_CascadeAllOrNothing ==
    [][\A p \in Procs :
          delete_ci_commit(p) =>
             /\ req[p].id \notin DOMAIN cis'
             /\ \A r \in DOMAIN rels' : ~Touches(rels'[r], req[p].id)]_vars

\* C7 (SpecStorage): no stored relationship has its source equal to its
\* target, whichever way the row was inserted.
C7_NoSelfLoops ==
    \A r \in DOMAIN rels : rels[r].source_ci_id # rels[r].target_ci_id

\* a direct insert of a row from a stored CI to itself was just refused
C7_Witness ==
    /\ resp.op = "session_add_relationship"
    /\ resp.kind = "IntegrityError"
    /\ resp.body.source_ci_id = resp.body.target_ci_id
    /\ resp.body.source_ci_id \in DOMAIN cis
    /\ resp.body.relationship_type \in ALLOWED_RELATIONSHIP_TYPES

\* C8 (SpecStorage): a direct insert of a relationship whose source or target
\* is not a stored CI is not stored.
C8_StorageRejectsDangling ==
    [][resp'.op = "session_add_relationship" => \A data \in SeedRelData :
          ( /\ \/ data.source_ci_id \notin DOMAIN cis
               \/ data.target_ci_id \notin DOMAIN cis
            /\ session_add_relationship(data) )
          => rels' = rels]_vars

\* C9 (Spec): an update of a stored CI that supplies a name fails with
\* DuplicateNameError exactly when another CI has that name, and an update
\* that fails leaves both tables as they were.
C9_UpdateDuplicateName ==
    [][resp'.op \in {"update_ci", "edit_ci_ui"} => \A id \in CIIds, data \in CIData :
          ( /\ id \in DOMAIN cis
            /\ data.ci_name # ABSENT
            /\ update_ci(id, data) \/ edit_ci_ui(id, data) )
          => /\ resp'.kind = "DuplicateNameError" <=>
                   \E j \in DOMAIN cis \ {id} : cis[j].ci_name = data.ci_name
             /\ resp'.kind # "ok" => (cis' = cis /\ rels' = rels)]_vars

\* C10 (Spec): a create (create_ci or add_ci_ui) with name, type and status
\* given, whose name is that of a stored CI, fails with DuplicateNameError and
\* leaves both tables as they were.
C10_CreateDuplicateName ==
    [][resp'.op \in {"create_ci", "add_ci_ui"} => \A data \in CIData :
          ( /\ Valid(data)
            /\ \E j \in DOMAIN cis : cis[j].ci_name = data.ci_name
            /\ create_ci(data) \/ add_ci_ui(data) )
          => /\ resp'.kind = "DuplicateNameError"
             /\ cis' = cis
             /\ rels' = rels]_vars

\* a create was just refused for the name of a stored CI that has relationships
C10_Witness ==
    /\ resp.op \in {"create_ci", "add_ci_ui"}
    /\ resp.kind = "DuplicateNameError"
    /\ \E j \in DOMAIN cis :
          /\ resp.body = NameOf(cis[j].ci_name)
          /\ \E r \in DOMAIN rels : Touches(rels[r], j)

\* C11 (Spec): a create (create_ci or add_ci_ui) whose name, type or status is
\* missing, null or empty fails with ValidationError and leaves both tables as
\* they were.
C11_CreateMissingField ==
    [][( /\ resp'.op \in {"create_ci", "add_ci_ui"}
         /\ ~(resp'.kind = "ValidationError" /\ cis' = cis /\ rels' = rels) )
       => \A data \in CICreateData :
             (\E f \in {"ci_name", "ci_type", "status"} : data[f] \in {ABSENT, None, ""})
             => ~(create_ci(data) \/ add_ci_ui(data))]_vars

\* a create was just refused for a missing or empty field while CIs and
\* relationships are stored
C11_Witness ==
    /\ resp.op \in {"create_ci", "add_ci_ui"}
    /\ resp.kind = "ValidationError"
    /\ DOMAIN cis # {}
    /\ DOMAIN rels # {}

\* C12 (Spec): a relationship create whose source id equals its target id,
\* whether or not a CI has that id and whatever the type, fails with
\* ValidationError and leaves both tables as they were.
C12_SelfRelationshipRefused ==
    [][( /\ resp'.op = "create_relationship"
         /\ ~(resp'.kind = "ValidationError" /\ rels' = rels /\ cis' = cis) )
       => \A data \in RelCreateData :
             data.source_ci_id = data.target_ci_id => ~create_relationship(data)]_vars

\* a create from a CI to itself was just refused by the handler's own test,
\* with CIs and a relationship stored
C12_Witness ==
    /\ resp.op = "create_relationship"
    /\ resp.kind = "ValidationError"
    /\ resp.body = Err("same ci")
    /\ Cardinality(DOMAIN cis) >= 2
    /\ DOMAIN rels # {}

\* C13 (Spec): a relationship create whose type is not in
\* ALLOWED_RELATIONSHIP_TYPES fails with ValidationError and leaves both tables
\* as they were, and in every reachable state the type of every stored
\* relationship is in ALLOWED_RELATIONSHIP_TYPES.
C13_OnlyAllowedTypes ==
    /\ [](\A r \in DOMAIN rels : rels[r].relationship_type \in ALLOWED_RELATIONSHIP_TYPES)
    /\ [][( /\ resp'.op = "create_relationship"
            /\ ~(resp'.kind = "ValidationError" /\ rels' = rels /\ cis' = cis) )
          => \A data \in RelCreateData :
                Get(data.relationship_type) \notin ALLOWED_RELATIONSHIP_TYPES
                => ~create_relationship(data)]_vars

\* a create between two stored CIs was just refused for its type, with a
\* relationship stored
C13_Witness ==
    /\ resp.op = "create_relationship"
    /\ resp.kind = "ValidationError"
    /\ resp.body = Err("invalid type")
    /\ Cardinality(DOMAIN cis) >= 2
    /\ DOMAIN rels # {}

\* C14 (Spec): a relationship create with distinct ids and an allowed type,
\* whose source or target is not a stored CI, fails with NotFoundError and
\* leaves both tables as they were.
C14_MissingEndpointNotFound ==
    [][( /\ resp'.op = "create_relationship"
         /\ ~(resp'.kind = "NotFoundError" /\ rels' = rels /\ cis' = cis) )
       => \A data \in RelCreateData :
             ( /\ data.source_ci_id # data.target_ci_id
               /\ data.relationship_type \in ALLOWED_RELATIONSHIP_TYPES
               /\ \/ data.source_ci_id \notin DOMAIN cis
                  \/ data.target_ci_id \notin DOMAIN cis )
             => ~create_relationship(data)]_vars

\* a create from a stored CI to a missing one was just refused, with a
\* relationship stored
C14_Witness ==
    /\ resp.op = "create_relationship"
    /\ resp.kind = "NotFoundError"
    /\ resp.body = Err("target not found")
    /\ Cardinality(DOMAIN cis) >= 2
    /\ DOMAIN rels # {}

\* C15 (Spec): a delete (delete_ci or delete_ci_ui) of an id that no stored CI
\* has fails with NotFoundError, and every CI and every relationship is left
\* as it was.
C15_DeleteMissingNotFound ==
    [][( /\ resp'.op \in {"delete_ci", "delete_ci_ui"}
         /\ ~(resp'.kind = "NotFoundError" /\ cis' = cis /\ rels' = rels) )
       => \A X \in CIIds :
             X \notin DOMAIN cis => ~(delete_ci(X) \/ delete_ci_ui(X))]_vars

\* a delete of a missing id was just refused, with CIs and a relationship
\* stored
C15_Witness ==
    /\ resp.op \in {"delete_ci", "delete_ci_ui"}
    /\ resp.kind = "NotFoundError"
    /\ resp.id \notin DOMAIN cis
    /\ Cardinality(DOMAIN cis) >= 2
    /\ DOMAIN rels # {}

\* C16 (Spec): a CI create, update or delete or a relationship create or
\* delete that fails, before it writes or at its commit, leaves both tables
\* exactly as they were.
C16_FailureLeavesStoreUnchanged ==
    [][( /\ resp'.op \in {"create_ci", "add_ci_ui", "update_ci", "edit_ci_ui",
                          "delete_ci", "delete_ci_ui",
                          "create_relationship", "delete_relationship"}
         /\ resp'.kind # "ok" )
       => (cis' = cis /\ rels' = rels)]_vars

\* an update was just refused at its commit, after the handler's own checks
\* had passed and the new name was staged: no stored CI has the name it was
\* refused for, and CIs and a relationship are stored
C16_Witness ==
    /\ resp.op = "update_ci"
    /\ resp.kind = "DuplicateNameError"
    /\ resp.body = NameOf("c")
    /\ \A j \in DOMAIN cis : cis[j].ci_name # "c"
    /\ Cardinality(DOMAIN cis) >= 2
    /\ DOMAIN rels # {}

\* C17 (Spec): the id given to a newly created CI is the id of no stored CI
\* and, when the request before it was the delete of a CI, not the id of that
\* deleted CI either: an id once handed out is not handed out again.
C17_IdNeverReused ==
    [][( /\ resp'.op \in {"create_ci", "add_ci_ui"}
         /\ resp'.kind = "ok" )
       => /\ resp'.id \notin DOMAIN cis
          /\ (resp.op \in {"delete_ci", "delete_ci_ui"} /\ resp.kind = "ok")
                => resp'.id # resp.id]_vars

\* C18 (SpecQuery): for a stored CI c, the relationships listed for c with
\* direction 'source' are exactly the stored relationships whose source is c,
\* with 'target' exactly those whose target is c, with 'all' exactly those
\* whose source or target is c, and no relationship is listed twice.
C18_ListByEndpoint ==
    ( /\ resp.op = "get_relationships_for_ci"
      /\ resp.id \in DOMAIN cis
      /\ resp.body.args \in {"source", "target", "all"} )
    => LET rows     == resp.body.rows
           listed   == {rows[k] : k \in 1..Len(rows)}
           asSource == {r \in DOMAIN rels : rels[r].source_ci_id = resp.id}
           asTarget == {r \in DOMAIN rels : rels[r].target_ci_id = resp.id}
       IN  /\ resp.kind = "ok"
           /\ Len(rows) = Cardinality(listed)
           /\ resp.body.args = "source" => listed = asSource
           /\ resp.body.args = "target" => listed = asTarget
           /\ resp.body.args = "all" => listed = asSource \cup asTarget

\* the relationships of a CI that is the target of one stored relationship and
\* the source of another were just listed by target: one row
C18_Witness ==
    /\ resp.op = "get_relationships_for_ci"
    /\ resp.kind = "ok"
    /\ resp.body.args = "target"
    /\ Len(resp.body.rows) = 1
    /\ \E r \in DOMAIN rels : rels[r].source_ci_id = resp.id
    /\ \E r \in DOMAIN rels : rels[r].target_ci_id = resp.id

\* C19 (SpecQuery): for a stored CI, a listing of its relationships whose
\* direction is given and is, letter case aside, none of source, target and
\* all fails with ValidationError and returns no rows.
C19_UnknownDirectionRefused ==
    ( /\ resp.op = "get_relationships_for_ci"
      /\ resp.id \in DOMAIN cis
      /\ resp.body.args \in Directions \ {ABSENT, "source", "target", "all", "SOURCE"} )
    => /\ resp.kind = "ValidationError"
       /\ resp.body.rows = <<>>

\* an unknown direction was just refused for a CI that has relationships
C19_Witness ==
    /\ resp.op = "get_relationships_for_ci"
    /\ resp.kind = "ValidationError"
    /\ resp.body.args = "sideways"
    /\ \E r \in DOMAIN rels : Touches(rels[r], resp.id)

\* C20 (SpecQuery): a listing of the CIs (get_all_cis or list_cis_ui) filtered
\* by a type alone returns exactly the stored CIs of that type, each once, in
\* ascending order of name.
C20_ListByTypeOrdered ==
    ( /\ resp.op \in {"get_all_cis", "list_cis_ui"}
      /\ ~Falsy(resp.body.args.ci_type)
      /\ resp.body.args.owner = ABSENT
      /\ resp.body.args.ci_name = ABSENT )
    => LET rows == resp.body.rows
       IN  /\ resp.kind = "ok"
           /\ {rows[k] : k \in 1..Len(rows)}
                 = {i \in DOMAIN cis : cis[i].ci_type = resp.body.args.ci_type}
           /\ \A k \in 1..(Len(rows) - 1) :
                 NameRank(cis[rows[k]].ci_name) < NameRank(cis[rows[k + 1]].ci_name)

\* C21 (Spec): a relationship create with the source, target and type of a
\* stored relationship succeeds: it is not refused, and it stores one more
\* relationship under an id no stored relationship has, leaving the others as
\* they were.
C21_DuplicateEdgesAllowed ==
    [][resp'.op = "create_relationship"
       => /\ resp'.kind # "ok"
                => \A data \in RelCreateData :
                      (\E r \in DOMAIN rels : rels[r] = NewRel(data))
                      => ~create_relationship(data)
          /\ resp'.kind = "ok"
                => /\ resp'.id \notin DOMAIN rels
                   /\ DOMAIN rels' = DOMAIN rels \cup {resp'.id}
                   /\ \A r \in DOMAIN rels : rels'[r] = rels[r]]_vars

\* a create has just stored a second relationship equal to the first
C21_Witness ==
    /\ resp.op = "create_relationship"
    /\ resp.kind = "ok"
    /\ DOMAIN rels = {1, 2}
    /\ rels[1] = rels[2]
    /\ resp.id = 2

\* C22 (SpecRoundTrip): a get of the id a successful create (create_ci or
\* add_ci_ui) returned, with no update or delete in between, returns a CI
\* whose name, type, status, owner, location and description are the create's
\* inputs (null for one not given), with that id and a timestamp.
C22_CreateThenGet ==
    [][\A id \in CIIds : get_ci(id) =>
          \A p \in Procs :
              ( /\ req[p].op \in {"create_ci", "add_ci_ui"}
                /\ req[p].pc = "done"
                /\ req[p].kind = "ok"
                /\ req[p].id = id )
              => LET input == req[p].data
                     got   == resp'.body
                 IN  /\ resp'.kind = "ok"
                     /\ got.id = id
                     /\ got.ci_name = input.ci_name
                     /\ got.ci_type = input.ci_type
                     /\ got.status = input.status
                     /\ got.owner = Get(input.owner)
                     /\ got.ip_location = Get(input.ip_location)
                     /\ got.description = Get(input.description)
                     /\ got.last_updated \in {Isoformat(t) : t \in 1..clock}]_vars

\* a get has just returned the second CI created, one created with an owner,
\* while the worker that created it still holds the create's payload
C22_Witness ==
    /\ resp.op = "get_ci"
    /\ resp.kind = "ok"
    /\ resp.id = 2
    /\ resp.body.owner = "ops"
    /\ \E p \in Procs :
          /\ req[p].op \in {"create_ci", "add_ci_ui"}
          /\ req[p].pc = "done"
          /\ req[p].kind = "ok"
          /\ req[p].id = 2
          /\ req[p].data.owner = "ops"

C24_DeleteRelationshipFrame ==
    [][resp'.op = "delete_relationship" => \A id \in RelIds :
          delete_relationship(id) =>
             IF id \in DOMAIN rels
             THEN /\ resp'.kind = "ok"
                  /\ DOMAIN rels' = DOMAIN rels \ {id}
                  /\ \A r \in DOMAIN rels' : rels'[r] = rels[r]
                  /\ cis' = cis
             ELSE /\ resp'.kind = "NotFoundError"
                  /\ rels' = rels
                  /\ cis' = cis]_vars

\* the first of two stored relationships was just deleted and
\* the second is still stored
C24_Witness ==
    /\ resp.op = "delete_relationship"
    /\ resp.kind = "ok"
    /\ resp.id = 1
    /\ DOMAIN rels = {2}
    /\ Cardinality(DOMAIN cis) >= 2

\* C25: add_todo with a text that has a character other than whitespace
\* appends one item, the text without its leading and trailing whitespace,
\* behind the items the list had, which stay as they were; with an empty or
\* whitespace-only text the list stays as it was.
C25_AddTodo ==
    [][\A text \in TodoTexts : add_todo(text) =>
         IF \E k \in 1..Len(text) : text[k] \notin Whitespace
         THEN /\ Len(todos') = Len(todos) + 1
              /\ SubSeq(todos', 1, Len(todos)) = todos
              /\ LET item == todos'[Len(todos')] IN
                 /\ item # <<>>
                 /\ item[1] \notin Whitespace
                 /\ item[Len(item)] \notin Whitespace
                 /\ \E i, j \in 0..Len(text) :
                       /\ i + Len(item) + j = Len(text)
                       /\ SubSeq(text, i + 1, i + Len(item)) = item
                       /\ \A k \in 1..Len(text) :
                            (k <= i \/ k > i + Len(item)) =>
                              text[k] \in Whitespace
         ELSE todos' = todos]_vars

\* an item with whitespace inside it was just added behind another item
C25_Witness ==
    /\ resp.op = "add_todo" /\ resp.status = 302
    /\ Len(todos) = 2
    /\ todos[2] = <<"x", " ", "x">>

\* C26: remove_todo(i) with 0 <= i < len(todos) takes out the item at
\* position i and keeps the others in their order; with i out of range the
\* list stays as it was; either way the answer is the redirect.
C26_RemoveTodo ==
    [][\A i \in TodoIds : remove_todo(i) =>
         /\ resp'.kind = "ok" /\ resp'.status = 302
         /\ IF i < Len(todos)
            THEN /\ Len(todos') = Len(todos) - 1
                 /\ \A k \in 1..Len(todos') :
                      todos'[k] = IF k <= i THEN todos[k] ELSE todos[k + 1]
            ELSE todos' = todos]_vars

\* the middle one of three different items was just removed
C26_Witness ==
    /\ resp.op = "remove_todo" /\ resp.id = 1
    /\ todos = << <<"x">>, <<"x", " ", "x">> >>

\* C27 (SpecUpdate): after any sequence of CI creates and updates, through the
\* API and the UI, every stored CI has a non-empty name, a non-empty type and
\* a non-empty status.
C27_RequiredFieldsNonEmpty ==
    \A i \in DOMAIN cis :
        /\ cis[i].ci_name \notin {"", None}
        /\ cis[i].ci_type \notin {"", None}
        /\ cis[i].status \notin {"", None}

\* C28 (SpecRelUi): delete_relationship_ui(rel_id, ci_id) changes no CI; when
\* it changes the relationships, rel_id was stored with ci_id as its source
\* or its target and is the one row removed; when rel_id is not stored or
\* does not involve ci_id, the deletion is aborted and every relationship is
\* unchanged.
C28_UiDeleteOnlyFromEndpoint ==
    [][\A rel_id \in RelIds, ci_id \in CIIds :
         delete_relationship_ui(rel_id, ci_id) =>
           /\ cis' = cis
           /\ rels' # rels =>
                 /\ rel_id \in DOMAIN rels
                 /\ Touches(rels[rel_id], ci_id)
                 /\ DOMAIN rels' = DOMAIN rels \ {rel_id}
                 /\ \A r \in DOMAIN rels' : rels'[r] = rels[r]
           /\ (rel_id \notin DOMAIN rels \/ ~Touches(rels[rel_id], ci_id)) =>
                 /\ rels' = rels
                 /\ resp'.kind \in {"NotFoundError", "Aborted"}]_vars

\* a deletion was just aborted for a stored relationship between two stored
\* CIs, asked for from the page of a third CI
C28_Witness ==
    /\ resp.op = "delete_relationship_ui"
    /\ resp.kind = "Aborted"
    /\ resp.id \in DOMAIN rels
    /\ ~Touches(rels[resp.id], resp.body.ci_id)
    /\ {rels[resp.id].source_ci_id, rels[resp.id].target_ci_id} \subseteq DOMAIN cis

=============================================================================
